---- MODULE Spec2Model ----
(***************************************************************************)
(* FlightChain: the on-chain event ledger (FlightEventRegistry.sol) as a   *)
(* state machine.  The contract's storage is the state; every external     *)
(* function is a pure operator from (storage, msg.sender, arguments,       *)
(* block) to an outcome (success or revert, return value, logs, new        *)
(* storage), and one action per function applies it as one transaction.    *)
(* A reverted transaction leaves the storage as it was.                    *)
(***************************************************************************)
EXTENDS Integers, Sequences, FiniteSets, TLC

(***************************************************************************)
(* Bounds of the model.                                                    *)
(***************************************************************************)
MaxHash  == 2   \* digests 1..MaxHash; 0 is bytes32(0)
MaxBlock == 2   \* blocks 1..MaxBlock
MaxBatch == 2   \* longest array passed to recordEvents
MaxUint  == 3   \* type(uint256).max, scaled down: unsigned values are 0..MaxUint
MaxTx    == 3   \* transactions the browser wallets send
MaxApprove == 2 \* activations of "Approve & Send" while the home modal is open

GasBufferPct == 20

ZeroAddress == 0
ZeroHash    == 0
Deployer    == 1
GenesisTime == 1700000100

Accounts   == {Deployer, 2}
Addresses  == {ZeroAddress} \cup Accounts
Hashes     == 0..MaxHash
FlightIds  == {"", "UA123", "DL456"}
EventTypes == {"", "DEPARTURE"}
Timestamps == {0, 1700000000}
Actors     == {"ATC"}

(* Digests are opaque: the contract only compares them with each other   *)
(* and with bytes32(0).  Callers therefore draw a digest that is zero, or  *)
(* not above `top`, or the next unused one (the digests on the ledger are  *)
(* then always 1..k), which leaves out only renamings of digests.          *)
Top(he) == IF \A h \in Hashes : ~he[h] THEN 0
           ELSE CHOOSE h \in Hashes : he[h] /\ \A g \in Hashes : he[g] => g <= h

RECURSIVE InOrder(_, _, _)
InOrder(hs, i, top) ==
    IF i > Len(hs) THEN TRUE
    ELSE IF hs[i] > top + 1 THEN FALSE
    ELSE InOrder(hs, i + 1, IF hs[i] > top THEN hs[i] ELSE top)

(* The five arguments of recordEvent. *)
Args == [flightId : FlightIds, eventType : EventTypes, timestamp : Timestamps,
         actor : Actors, dataHash : Hashes]

VARIABLES
    owner,                \* address public owner
    authorizedBackend,    \* address public authorizedBackend
    events,               \* FlightEvent[] public events (TLA+ position i+1 is index i)
    flightEventIndices,   \* mapping(string => uint256[])
    hashExists,           \* mapping(bytes32 => bool)
    totalEventsRecorded,  \* uint256 public totalEventsRecorded
    blockNumber,          \* block.number of the block being built
    blockTimestamp,       \* block.timestamp of the block being built
    lastTx,               \* the transaction just mined, with its receipt, until the sender reads it
    notifications,        \* number of EventRecorded logs on the chain
    anchorStatus,         \* off-chain Event -> Unanchored | Pending | Confirmed | Failed
    anchorRef,            \* off-chain Event -> the reference recorded by confirm
    issued,               \* off-chain Event -> the descriptor last issued for it
    failReason,           \* off-chain Event -> the diagnostic recorded by fail
    txCount,              \* transactions the wallets have had mined
    apiCall,              \* the last direct call of the backend API, with its response
    pc,                   \* browser session -> where its handler stands
    flight,               \* browser session -> the flight.events it last fetched
    eventsNeedingTx,      \* browser session -> events still to prepare
    pendingTransactions,  \* browser session -> [{event, transaction}]
    cursor,               \* browser session -> i of the approval loop
    receipt,              \* browser session -> receipt of the transaction just sent
    successCount,         \* browser session -> confirmations of this approval
    shown,                \* browser session -> messages presented to the user
    web3Call,             \* the last call of a web3.ts helper, with what it returned
    approvals,            \* home page: the running invocations of handleApproveTransactions
    handed,               \* home page: events whose transaction was handed to the signer
    confirmCalls,         \* home page: the bodies of its confirmTransaction calls
    loading,              \* home page: const [loading, setLoading]
    metamaskModalVisible, \* home page: const [metamaskModalVisible, ...]
    consoleVisible,       \* home page: const [consoleVisible, setConsoleVisible]
    direct,               \* home page: handleSearch got the events by its direct call
    navigation,           \* home page: what last asked for router.push to the flight page
    onComplete            \* home page: the callback BlockchainConsole's timer holds

offchainVars == <<anchorStatus, anchorRef, issued, failReason, txCount, apiCall, pc, flight,
                  eventsNeedingTx, pendingTransactions, cursor, receipt,
                  successCount, shown, web3Call, approvals, handed, confirmCalls,
                  loading, metamaskModalVisible, consoleVisible, direct, navigation,
                  onComplete>>

vars == <<owner, authorizedBackend, events, flightEventIndices, hashExists,
          totalEventsRecorded, blockNumber, blockTimestamp, lastTx, notifications,
          offchainVars>>

ledgerVars == <<events, flightEventIndices, hashExists, totalEventsRecorded>>

(***************************************************************************)
(* Storage and execution context as values.                                *)
(***************************************************************************)
Storage ==
    [owner |-> owner, authorizedBackend |-> authorizedBackend,
     events |-> events, flightEventIndices |-> flightEventIndices,
     hashExists |-> hashExists, totalEventsRecorded |-> totalEventsRecorded]

Block == [number |-> blockNumber, timestamp |-> blockTimestamp]

(* An outcome of a call: the new storage, the logs and the return value    *)
(* when it succeeds; the untouched storage and no logs when it reverts.    *)
Success(st, logs, ret) ==
    [status |-> "success", reason |-> "", ret |-> ret, logs |-> logs, st |-> st]

Revert(st, reason) ==
    [status |-> "revert", reason |-> reason, ret |-> 0, logs |-> <<>>, st |-> st]

(***************************************************************************)
(* Modifiers.                                                              *)
(***************************************************************************)
onlyOwner(st, sender) == sender = st.owner

onlyAuthorized(st, sender) == sender = st.owner \/ sender = st.authorizedBackend

(***************************************************************************)
(* _recordEvent, statement by statement.                                   *)
(***************************************************************************)
(* The four argument checks, in source order; "" when all pass. *)
ValidationError_NoTimestampCheck(a) ==
    IF a.flightId = "" THEN "Flight ID cannot be empty"
    ELSE IF a.eventType = "" THEN "Event type cannot be empty"
    ELSE IF a.dataHash = ZeroHash THEN "Data hash cannot be empty"
    ELSE ""

ValidationError(a) ==
    IF a.flightId = "" THEN "Flight ID cannot be empty"
    ELSE IF a.eventType = "" THEN "Event type cannot be empty"
    ELSE IF ~(a.timestamp > 0) THEN "Invalid timestamp"
    ELSE IF a.dataHash = ZeroHash THEN "Data hash cannot be empty"
    ELSE ""

(* uint256 eventIndex = events.length *)
eventIndex_OneBased(st) == Len(st.events) + 1

eventIndex(st) == Len(st.events)

(* The FlightEvent struct literal. *)
FlightEvent(a, blk) ==
    [flightId |-> a.flightId, eventType |-> a.eventType, timestamp |-> a.timestamp,
     actor |-> a.actor, dataHash |-> a.dataHash,
     blockNumber |-> blk.number, recordedAt |-> blk.timestamp]

(* events.push(...) *)
PushEvent_StalePointer(evs, e) ==
    IF evs = <<>> THEN <<e>> ELSE Append([evs EXCEPT ![Len(evs)] = e], e)

PushEvent(evs, e) == Append(evs, e)

(* flightEventIndices[_flightId].push(eventIndex) *)
PushFlightIndex_AfterPush(fei, flightId, idx) ==
    [fei EXCEPT ![flightId] = Append(@, idx + 1)]

PushFlightIndex(fei, flightId, idx) ==
    [fei EXCEPT ![flightId] = Append(@, idx)]

(* hashExists[_dataHash] = true *)
MarkHash_Forgotten(he, h) == he

MarkHash(he, h) == [he EXCEPT ![h] = TRUE]

(* emit EventRecorded(...) *)
EventRecorded_BlockTime(idx, a, blk) ==
    [name |-> "EventRecorded", eventIndex |-> idx, flightId |-> a.flightId,
     eventType |-> a.eventType, timestamp |-> a.timestamp,
     dataHash |-> a.dataHash, blockNumber |-> blk.timestamp]

EventRecorded(idx, a, blk) ==
    [name |-> "EventRecorded", eventIndex |-> idx, flightId |-> a.flightId,
     eventType |-> a.eventType, timestamp |-> a.timestamp,
     dataHash |-> a.dataHash, blockNumber |-> blk.number]

(* Everything after the checks: push, index, mark, count, emit, return. *)
AppendEntry_NoCount(st, logs, a, blk) ==
    LET idx == eventIndex(st)
        st1 == [st EXCEPT
                  !.events = PushEvent(st.events, FlightEvent(a, blk)),
                  !.flightEventIndices = PushFlightIndex(st.flightEventIndices, a.flightId, idx),
                  !.hashExists = MarkHash(st.hashExists, a.dataHash)]
    IN  Success(st1, Append(logs, EventRecorded(idx, a, blk)), idx)

AppendEntry(st, logs, a, blk) ==
    LET idx == eventIndex(st)
        st1 == [st EXCEPT
                  !.events = PushEvent(st.events, FlightEvent(a, blk)),
                  !.flightEventIndices = PushFlightIndex(st.flightEventIndices, a.flightId, idx),
                  !.hashExists = MarkHash(st.hashExists, a.dataHash),
                  !.totalEventsRecorded = st.totalEventsRecorded + 1]
    IN  Success(st1, Append(logs, EventRecorded(idx, a, blk)), idx)

_recordEvent_NoDedup(st, logs, a, blk) ==
    IF ValidationError(a) # "" THEN Revert(st, ValidationError(a))
    ELSE AppendEntry(st, logs, a, blk)

_recordEvent_RequireNew(st, logs, a, blk) ==
    IF ValidationError(a) # "" THEN Revert(st, ValidationError(a))
    ELSE IF st.hashExists[a.dataHash]
         THEN Revert(st, "Event with this hash already exists")
    ELSE AppendEntry(st, logs, a, blk)

_recordEvent(st, logs, a, blk) ==
    IF ValidationError(a) # "" THEN Revert(st, ValidationError(a))
    ELSE IF st.hashExists[a.dataHash] THEN Success(st, logs, 0)
    ELSE IF ~(~st.hashExists[a.dataHash]) THEN Revert(st, "Event with this hash already exists")
    ELSE AppendEntry(st, logs, a, blk)

(***************************************************************************)
(* External functions.                                                     *)
(***************************************************************************)
recordEvent_OnlyOwner(st, sender, a, blk) ==
    IF ~onlyOwner(st, sender) THEN Revert(st, "Only owner can call this function")
    ELSE _recordEvent(st, <<>>, a, blk)

recordEvent_OnlyAuthorized(st, sender, a, blk) ==
    IF ~onlyAuthorized(st, sender) THEN Revert(st, "Not authorized to record events")
    ELSE _recordEvent(st, <<>>, a, blk)

recordEvent(st, sender, a, blk) == _recordEvent(st, <<>>, a, blk)

(* The loop of recordEvents from item i on; a revert of any item reverts   *)
(* the whole transaction, so the storage of the call's start is returned.  *)
RECURSIVE RecordLoop_KeepsPrefix(_, _, _, _, _, _)
RecordLoop_KeepsPrefix(st0, st, logs, b, i, blk) ==
    IF i > Len(b.flightIds) THEN Success(st, logs, Len(b.flightIds))
    ELSE LET a == [flightId |-> b.flightIds[i], eventType |-> b.eventTypes[i],
                   timestamp |-> b.timestamps[i], actor |-> b.actors[i],
                   dataHash |-> b.dataHashes[i]]
             r == _recordEvent(st, logs, a, blk)
         IN  IF r.status = "revert" THEN Revert(st, r.reason)
             ELSE RecordLoop_KeepsPrefix(st0, r.st, r.logs, b, i + 1, blk)

RECURSIVE RecordLoop(_, _, _, _, _, _)
RecordLoop(st0, st, logs, b, i, blk) ==
    IF i > Len(b.flightIds) THEN Success(st, logs, Len(b.flightIds))
    ELSE LET a == [flightId |-> b.flightIds[i], eventType |-> b.eventTypes[i],
                   timestamp |-> b.timestamps[i], actor |-> b.actors[i],
                   dataHash |-> b.dataHashes[i]]
             r == _recordEvent(st, logs, a, blk)
         IN  IF r.status = "revert" THEN Revert(st0, r.reason)
             ELSE RecordLoop(st0, r.st, r.logs, b, i + 1, blk)

recordEvents(st, sender, b, blk) ==
    IF Len(b.flightIds) # Len(b.eventTypes) THEN Revert(st, "Array lengths mismatch")
    ELSE IF Len(b.flightIds) # Len(b.timestamps) THEN Revert(st, "Array lengths mismatch")
    ELSE IF Len(b.flightIds) # Len(b.actors) THEN Revert(st, "Array lengths mismatch")
    ELSE IF Len(b.flightIds) # Len(b.dataHashes) THEN Revert(st, "Array lengths mismatch")
    ELSE RecordLoop(st, st, <<>>, b, 1, blk)

authorizeBackend_OnlyAuthorized(st, sender, backend) ==
    IF ~onlyAuthorized(st, sender) THEN Revert(st, "Only owner can call this function")
    ELSE IF backend = ZeroAddress THEN Revert(st, "Invalid backend address")
    ELSE Success([st EXCEPT !.authorizedBackend = backend],
                 <<[name |-> "BackendAuthorized", backend |-> backend]>>, 0)

authorizeBackend(st, sender, backend) ==
    IF ~onlyOwner(st, sender) THEN Revert(st, "Only owner can call this function")
    ELSE IF backend = ZeroAddress THEN Revert(st, "Invalid backend address")
    ELSE Success([st EXCEPT !.authorizedBackend = backend],
                 <<[name |-> "BackendAuthorized", backend |-> backend]>>, 0)

transferOwnership_AlsoBackend(st, sender, newOwner) ==
    IF ~onlyOwner(st, sender) THEN Revert(st, "Only owner can call this function")
    ELSE IF newOwner = ZeroAddress THEN Revert(st, "Invalid new owner address")
    ELSE Success([st EXCEPT !.owner = newOwner, !.authorizedBackend = newOwner],
                 <<[name |-> "OwnershipTransferred", previousOwner |-> st.owner,
                    newOwner |-> newOwner]>>, 0)

transferOwnership(st, sender, newOwner) ==
    IF ~onlyOwner(st, sender) THEN Revert(st, "Only owner can call this function")
    ELSE IF newOwner = ZeroAddress THEN Revert(st, "Invalid new owner address")
    ELSE Success([st EXCEPT !.owner = newOwner],
                 <<[name |-> "OwnershipTransferred", previousOwner |-> st.owner,
                    newOwner |-> newOwner]>>, 0)

(***************************************************************************)
(* View functions.  A view that reverts returns the value NotFound here.   *)
(***************************************************************************)
getTotalEvents(evs) == Len(evs)

getFlightEventCount(fei, flightId) == Len(fei[flightId])

getFlightEventIndices(fei, flightId) == fei[flightId]

getEvent_LastExcluded(evs, index) ==
    IF ~(index + 1 < Len(evs)) THEN [error |-> "Event index out of bounds"]
    ELSE LET evt == evs[index + 1]
         IN  <<evt.flightId, evt.eventType, evt.timestamp, evt.actor,
               evt.dataHash, evt.blockNumber, evt.recordedAt>>

getEvent(evs, index) ==
    IF ~(index < Len(evs)) THEN [error |-> "Event index out of bounds"]
    ELSE LET evt == evs[index + 1]
         IN  <<evt.flightId, evt.eventType, evt.timestamp, evt.actor,
               evt.dataHash, evt.blockNumber, evt.recordedAt>>

verifyHash(he, dataHash) == he[dataHash]

(* getFlightEvents: `_start + _count` is a checked uint256 addition        *)
(* (pragma ^0.8.19), which reverts with Panic(0x11) when it overflows.     *)
Failed(error) == [ok |-> FALSE, error |-> error, result |-> <<>>]

Returned(result) == [ok |-> TRUE, error |-> "", result |-> result]

getFlightEvents(evs, fei, flightId, start, count) ==
    LET indices == fei[flightId]
    IN  IF ~(start < Len(indices)) THEN Failed("Start index out of bounds")
        ELSE IF start + count > MaxUint THEN Failed("Panic(0x11)")
        ELSE LET sum == start + count
                 end == IF sum > Len(indices) THEN Len(indices) ELSE sum
             IN  Returned([k \in 1..(end - start) |-> evs[indices[start + k] + 1]])

(***************************************************************************)
(* Transactions.                                                           *)
(***************************************************************************)
NoTx == [op |-> "none"]

Mined(op, sender, args, r) ==
    [op |-> op, sender |-> sender, args |-> args, status |-> r.status,
     reason |-> r.reason, ret |-> r.ret, logs |-> r.logs,
     blockNumber |-> blockNumber, blockTimestamp |-> blockTimestamp]

(* Commit the storage of an outcome and publish the receipt. *)
Apply(op, sender, args, r) ==
    /\ owner' = r.st.owner
    /\ authorizedBackend' = r.st.authorizedBackend
    /\ events' = r.st.events
    /\ flightEventIndices' = r.st.flightEventIndices
    /\ hashExists' = r.st.hashExists
    /\ totalEventsRecorded' = r.st.totalEventsRecorded
    /\ lastTx' = Mined(op, sender, args, r)
    /\ notifications' = notifications
          + Cardinality({k \in 1..Len(r.logs) : r.logs[k].name = "EventRecorded"})
    /\ UNCHANGED <<blockNumber, blockTimestamp, offchainVars>>

(* Batches: at most one item with a bad field (the first one decides the   *)
(* revert), all five arrays of one length; or copies of one good item with *)
(* one of the last four arrays one element short (the length checks come   *)
(* before any item is looked at).                                          *)
GoodItems == {a \in Args : ValidationError(a) = ""}

BadItems == {a \in Args :
               /\ ValidationError(a) # ""
               /\ Cardinality({k \in 1..4 :
                     \/ k = 1 /\ a.flightId = ""
                     \/ k = 2 /\ a.eventType = ""
                     \/ k = 3 /\ a.timestamp = 0
                     \/ k = 4 /\ a.dataHash = ZeroHash}) = 1
               /\ a.flightId \in {"", "UA123"}
               /\ a.dataHash \in {ZeroHash, 1}}

ItemSeqs(S) == UNION {[1..n -> S] : n \in 0..MaxBatch}

Front(s) == SubSeq(s, 1, Len(s) - 1)

Unzip(items, short) ==
    LET col(k, s) == IF short = k /\ Len(s) > 0 THEN Front(s) ELSE s
    IN  [flightIds  |-> [i \in 1..Len(items) |-> items[i].flightId],
         eventTypes |-> col(2, [i \in 1..Len(items) |-> items[i].eventType]),
         timestamps |-> col(3, [i \in 1..Len(items) |-> items[i].timestamp]),
         actors     |-> col(4, [i \in 1..Len(items) |-> items[i].actor]),
         dataHashes |-> col(5, [i \in 1..Len(items) |-> items[i].dataHash])]

Batches ==
    {Unzip(items, 0) :
        items \in {s \in ItemSeqs(GoodItems \cup BadItems) :
                     Cardinality({i \in 1..Len(s) : s[i] \in BadItems}) <= 1}}
    \cup {Unzip(items, k) :
            items \in ItemSeqs({a \in GoodItems : a.flightId = "UA123" /\ a.dataHash = 1})
                      \ {<<>>},
            k \in 2..5}

(***************************************************************************)
(* Off-chain Events and the descriptors prepared for them.                 *)
(***************************************************************************)
EventIds == {91, 92}

Sessions == {"home", "flight"}

Registry == "FlightEventRegistry"

(* The fields the backend hands to recordEvent for an Event; its digest    *)
(* is computed once, from the Event alone.                                 *)
EventArgs(e) ==
    [flightId |-> "UA123", eventType |-> "DEPARTURE", timestamp |-> 1700000000,
     actor |-> "ATC", dataHash |-> IF e = 91 THEN 1 ELSE 2]

(* What estimateGas measures: the path recordEvent would take now.         *)
estimateGas(st, sender, a, blk) ==
    LET r == recordEvent(st, sender, a, blk)
    IN  IF r.status = "revert" THEN "fails"
        ELSE IF Len(r.st.events) = Len(st.events) THEN "skip"
        ELSE "append"

NoDescriptor == [to |-> "none"]

PreparedTransaction(st, a, blk) ==
    LET estimate == estimateGas(st, Deployer, a, blk)
    IN  [to |-> Registry, data |-> a, value |-> 0,
         gas |-> IF estimate = "fails"
                 THEN [estimate |-> "default", bufferPct |-> 0]
                 ELSE [estimate |-> estimate, bufferPct |-> GasBufferPct]]

NoRef == [tx_hash |-> 0, block_number |-> 0]

Db == [status |-> anchorStatus, ref |-> anchorRef, issued |-> issued,
       reason |-> failReason]

ApiOk(db, body) == [ok |-> TRUE, error |-> "", body |-> body, db |-> db]

ApiError(db, error) == [ok |-> FALSE, error |-> error, body |-> NoDescriptor, db |-> db]

prepare_NoPendingGuard(db, st, e, blk) ==
    IF db.status[e] = "Confirmed" THEN ApiError(db, "AlreadyAnchored")
    ELSE LET d == PreparedTransaction(st, EventArgs(e), blk)
         IN  ApiOk([db EXCEPT !.status[e] = "Pending", !.issued[e] = d], d)

prepare(db, st, e, blk) ==
    IF db.status[e] = "Confirmed" THEN ApiError(db, "AlreadyAnchored")
    ELSE IF db.status[e] = "Pending" THEN ApiError(db, "InvalidState")
    ELSE LET d == PreparedTransaction(st, EventArgs(e), blk)
         IN  ApiOk([db EXCEPT !.status[e] = "Pending", !.issued[e] = d], d)

confirm_NoGuard(db, e, tx_hash, block_number) ==
    ApiOk([db EXCEPT !.status[e] = "Confirmed",
                     !.ref[e] = [tx_hash |-> tx_hash, block_number |-> block_number]],
          NoDescriptor)

confirm(db, e, tx_hash, block_number) ==
    IF db.status[e] # "Pending" THEN ApiError(db, "InvalidState")
    ELSE ApiOk([db EXCEPT !.status[e] = "Confirmed",
                          !.ref[e] = [tx_hash |-> tx_hash,
                                      block_number |-> block_number]],
               NoDescriptor)

fail_FromAnyState(db, e, reason) ==
    ApiOk([db EXCEPT !.status[e] = "Failed", !.reason[e] = reason], NoDescriptor)

fail(db, e, reason) ==
    IF db.status[e] # "Pending" THEN ApiError(db, "InvalidState")
    ELSE ApiOk([db EXCEPT !.status[e] = "Failed", !.reason[e] = reason], NoDescriptor)

(* The blockchain field of an event as the flight endpoints return it. *)
blockchain(db, e) ==
    [is_verified |-> db.status[e] = "Confirmed",
     tx_hash |-> db.ref[e].tx_hash, block_number |-> db.ref[e].block_number]

FlightData(db) == [e \in EventIds |-> blockchain(db, e)]

NoFlight == [e \in EventIds |-> blockchain([status |-> [x \in EventIds |-> "Unanchored"],
                                             ref |-> [x \in EventIds |-> NoRef]], e)]

(* flight.events.filter(e => !e.blockchain?.is_verified), in id order. *)
RECURSIVE InIdOrder(_)
InIdOrder(S) ==
    IF S = {} THEN <<>>
    ELSE LET m == CHOOSE x \in S : \A y \in S : x <= y
         IN  <<m>> \o InIdOrder(S \ {m})

FilterNeedingTx_All(data) == InIdOrder(EventIds)

FilterNeedingTx(data) == InIdOrder({e \in EventIds : ~data[e].is_verified})

(* The body of POST /blockchain/confirm-transaction. *)
confirmTransaction_NoHash(eventId, txHash, blockNo) ==
    [event_id |-> eventId, tx_hash |-> 0, block_number |-> blockNo]

confirmTransaction(eventId, txHash, blockNo) ==
    [event_id |-> eventId, tx_hash |-> txHash, block_number |-> blockNo]

(***************************************************************************)
(* web3.ts: the helpers that talk to the chain from the browser.  A node   *)
(* request answers, times out or fails; digests are 32 bytes long.         *)
(***************************************************************************)
DefaultGas == 300000

GasEstimates == {21000, 54321}

Requests == {"ok", "timeout", "error"}

(* How the requests of one getFlightEventsFromChain went: the provider and *)
(* getFlightEventIndices, and the indices whose getEvent did not answer.   *)
ReadOutcomes ==
    {rpc \in [indices : Requests, lost : SUBSET (0..(Cardinality(EventIds) - 1))] :
        rpc.indices # "ok" => rpc.lost = {}}

(* events.push({flightId: eventData[0], ...}) for each index; an index     *)
(* whose getEvent fails is logged and left out.                            *)
RECURSIVE ReadEach(_, _, _)
ReadEach(evs, indices, lost) ==
    IF indices = <<>> THEN <<>>
    ELSE LET index == Head(indices)
             eventData == getEvent(evs, index)
             rest == ReadEach(evs, Tail(indices), lost)
         IN  IF index \in lost THEN rest
             ELSE IF ~(index < Len(evs)) THEN rest
             ELSE <<[flightId |-> eventData[1], eventType |-> eventData[2],
                     timestamp |-> eventData[3], actor |-> eventData[4],
                     dataHash |-> eventData[5], blockNumber |-> eventData[6],
                     recordedAt |-> eventData[7]]>> \o rest

getFlightEventsFromChain(evs, fei, flightId, rpc) ==
    IF rpc.indices # "ok" THEN <<>>
    ELSE LET indices == getFlightEventIndices(fei, flightId)
         IN  IF Len(indices) = 0 THEN <<>>
             ELSE ReadEach(evs, indices, rpc.lost)

(* contract.recordEvent.estimateGas(...): a number, or it throws when the  *)
(* node does not answer or the call would revert.                          *)
gasEstimate(st, a, blk, request, gas) ==
    IF request # "ok" THEN [ok |-> FALSE, gas |-> 0]
    ELSE IF estimateGas(st, Deployer, a, blk) = "fails" THEN [ok |-> FALSE, gas |-> 0]
    ELSE [ok |-> TRUE, gas |-> gas]

Threw(st, error) == [threw |-> TRUE, error |-> error, value |-> NoDescriptor, st |-> st]

Resolved(st, value) == [threw |-> FALSE, error |-> "", value |-> value, st |-> st]

prepareRecordEventTransaction_NoFallback(st, contractAddress, a, estimate) ==
    IF ~estimate.ok THEN Threw(st, "estimateGas failed")
    ELSE Resolved(st, [to |-> contractAddress, data |-> a, value |-> 0,
                       gas |-> estimate.gas])

prepareRecordEventTransaction_Sends(st, contractAddress, a, estimate) ==
    Resolved(recordEvent(st, Deployer, a, [number |-> 1, timestamp |-> GenesisTime]).st,
             [to |-> contractAddress, data |-> a, value |-> 0,
              gas |-> IF estimate.ok THEN estimate.gas ELSE DefaultGas])

(* Builds the descriptor and leaves the chain as it found it: the contract *)
(* object has a provider and no signer, and only estimateGas is called.    *)
prepareRecordEventTransaction(st, contractAddress, a, estimate) ==
    Resolved(st, [to |-> contractAddress, data |-> a, value |-> 0,
                  gas |-> IF estimate.ok THEN estimate.gas ELSE DefaultGas])

(* gasLimit: gasEstimate * BigInt(120) / BigInt(100) *)
gasLimit(estimate) == (estimate * (100 + GasBufferPct)) \div 100

NoWeb3Call == [op |-> "none"]

NoReceipt == [hash |-> 0]

(* An invocation of the home page's handleApproveTransactions: where it    *)
(* stands, its i, the pendingTransactions of its closure, the receipt it   *)
(* awaits to confirm, and the receipt (hash 0: none) of each finished turn.*)
NoApproval == [pc |-> "none", i |-> 0, transactions |-> <<>>, receipt |-> NoReceipt,
               got |-> <<>>]

NoApiCall == [op |-> "none"]

(* setTimeout(onComplete, 1000): the handleConsoleComplete of one render,  *)
(* with the metamaskModalVisible and loading that render saw.              *)
NoTimer == [scheduled |-> FALSE, metamaskModalVisible |-> FALSE, loading |-> FALSE]

OffchainInit ==
    /\ anchorStatus = [e \in EventIds |-> "Unanchored"]
    /\ anchorRef = [e \in EventIds |-> NoRef]
    /\ issued = [e \in EventIds |-> NoDescriptor]
    /\ failReason = [e \in EventIds |-> ""]
    /\ txCount = 0
    /\ apiCall = NoApiCall
    /\ pc = [s \in Sessions |-> "idle"]
    /\ flight = [s \in Sessions |-> NoFlight]
    /\ eventsNeedingTx = [s \in Sessions |-> <<>>]
    /\ pendingTransactions = [s \in Sessions |-> <<>>]
    /\ cursor = [s \in Sessions |-> 0]
    /\ receipt = [s \in Sessions |-> NoReceipt]
    /\ successCount = [s \in Sessions |-> 0]
    /\ shown = [s \in Sessions |-> {}]
    /\ web3Call = NoWeb3Call
    /\ approvals = [k \in 1..MaxApprove |-> NoApproval]
    /\ handed = <<>>
    /\ confirmCalls = <<>>
    /\ loading = FALSE
    /\ metamaskModalVisible = FALSE
    /\ consoleVisible = FALSE
    /\ direct = FALSE
    /\ navigation = "none"
    /\ onComplete = NoTimer

Init ==
    /\ owner = Deployer
    /\ authorizedBackend = Deployer
    /\ events = <<>>
    /\ flightEventIndices = [f \in FlightIds |-> <<>>]
    /\ hashExists = [h \in Hashes |-> FALSE]
    /\ totalEventsRecorded = 0
    /\ blockNumber = 1
    /\ blockTimestamp = GenesisTime
    /\ lastTx = NoTx
    /\ notifications = 0
    /\ OffchainInit

CallRecordEvent ==
    /\ lastTx = NoTx
    /\ \E sender \in Accounts, a \in Args :
          /\ InOrder(<<a.dataHash>>, 1, Top(hashExists))
          /\ Apply("recordEvent", sender, a, recordEvent(Storage, sender, a, Block))

CallRecordEvents ==
    /\ lastTx = NoTx
    /\ \E sender \in Accounts, b \in Batches :
          /\ InOrder(b.dataHashes, 1, Top(hashExists))
          /\ Apply("recordEvents", sender, b, recordEvents(Storage, sender, b, Block))

CallAuthorizeBackend ==
    /\ lastTx = NoTx
    /\ \E sender \in Accounts, backend \in Addresses :
          Apply("authorizeBackend", sender, backend,
                authorizeBackend(Storage, sender, backend))

CallTransferOwnership ==
    /\ lastTx = NoTx
    /\ \E sender \in Accounts, newOwner \in Addresses :
          Apply("transferOwnership", sender, newOwner,
                transferOwnership(Storage, sender, newOwner))

(* The sender has read the receipt (tx.wait() returned). *)
ReadReceipt ==
    /\ lastTx # NoTx
    /\ lastTx' = NoTx
    /\ UNCHANGED <<owner, authorizedBackend, ledgerVars, blockNumber, blockTimestamp,
                   notifications, offchainVars>>

(* The chain seals the block and starts the next one.  A receipt is read   *)
(* before the next block: a later read would return the same receipt.      *)
NewBlock ==
    /\ lastTx = NoTx
    /\ blockNumber < MaxBlock
    /\ blockNumber' = blockNumber + 1
    /\ blockTimestamp' = blockTimestamp + 1
    /\ UNCHANGED <<owner, authorizedBackend, ledgerVars, lastTx, notifications,
                   offchainVars>>

Next ==
    \/ CallRecordEvent
    \/ CallRecordEvents
    \/ CallAuthorizeBackend
    \/ CallTransferOwnership
    \/ ReadReceipt
    \/ NewBlock

Spec == Init /\ [][Next]_vars

TypeOK ==
    /\ owner \in Accounts
    /\ authorizedBackend \in Accounts
    /\ totalEventsRecorded \in Nat
    /\ blockNumber \in 1..MaxBlock

(***************************************************************************)
(* The two pages, each in its own browser session with its own wallet,     *)
(* and the backend they call.  A session runs one approval loop at a time; *)
(* ModalSpec has the home page's modal approved more than once.            *)
(***************************************************************************)
Wallet(s) == IF s = "home" THEN Deployer ELSE 2

(* Commit the storage of a mined recordEvent. *)
Commit(r) ==
    /\ events' = r.st.events
    /\ flightEventIndices' = r.st.flightEventIndices
    /\ hashExists' = r.st.hashExists
    /\ totalEventsRecorded' = r.st.totalEventsRecorded
    /\ notifications' = notifications
          + Cardinality({k \in 1..Len(r.logs) : r.logs[k].name = "EventRecorded"})

SetDb(db) ==
    /\ anchorStatus' = db.status
    /\ anchorRef' = db.ref
    /\ issued' = db.issued
    /\ failReason' = db.reason

chainVars == <<ledgerVars, notifications>>

dbVars == <<anchorStatus, anchorRef, issued, failReason>>

modalVars == <<approvals, handed, confirmCalls>>

pageVars == <<loading, metamaskModalVisible, consoleVisible, direct, navigation,
              onComplete>>

restVars == <<owner, authorizedBackend, lastTx, blockNumber, blockTimestamp, web3Call,
              modalVars>>

fixedVars == <<restVars, pageVars>>

Message(level, e, detail) == [level |-> level, event |-> e, detail |-> detail]

(* The flight number typed into the search box, in upper case. *)
FlightNumber == "UA123"

(* GET /blockchain/flight-events/{flight_number}: the on-chain entries     *)
(* recorded under that flight id; a mapping has no entry for other ids.    *)
flight_events(evs, fei, flight_number) ==
    IF flight_number \notin DOMAIN fei THEN <<>>
    ELSE [k \in 1..Len(fei[flight_number]) |-> evs[fei[flight_number][k] + 1]]

(* api.ts getFlightEventsFromChain = async (flightNumber) => ...: its one  *)
(* parameter is the first argument of the call, the others are dropped.    *)
apiGetFlightEventsFromChain(evs, fei, arguments) ==
    flight_events(evs, fei, arguments[1])

(* How handleSearch came by flightData.events: from fetchFlightData in its *)
(* loop of maxFetchAttempts, from its own GET of the events once the loop  *)
(* ended without them, or not at all.                                      *)
Fetches == {"loop", "direct", "none"}

(* page.tsx: check the chain (3 s at most), and if nothing is found there  *)
(* fetch the flight and keep the events that are not verified.  With no    *)
(* events, or none to record, the page leaves for the flight page.         *)
HandleSearch ==
    \E request \in Requests, fetched \in Fetches :
        LET s == "home"
            chainEvents == apiGetFlightEventsFromChain(events, flightEventIndices,
                                                       <<Registry, FlightNumber>>)
            hasBlockchainEvents == IF request = "ok" THEN Len(chainEvents) > 0 ELSE FALSE
            checked == IF request # "ok"
                       THEN Message("info", 0, "Blockchain check skipped")
                       ELSE IF hasBlockchainEvents
                       THEN Message("success", 0, "Found events on blockchain")
                       ELSE Message("info", 0, "No events found on blockchain")
            data == FlightData(Db)
            needing == FilterNeedingTx(data)
            leaves(messages) ==
                /\ shown' = [shown EXCEPT ![s] = messages]
                /\ loading' = FALSE
                /\ navigation' = "handleSearch"
                /\ UNCHANGED <<pc, flight, eventsNeedingTx, pendingTransactions, direct>>
        IN  /\ pc[s] = "idle"
            /\ consoleVisible' = TRUE
            /\ IF hasBlockchainEvents
               THEN fetched = "loop" /\ leaves({checked})
               ELSE IF fetched = "none"
               THEN leaves({checked, Message("warning", 0, "Proceeding to flight page")})
               ELSE IF needing = <<>>
               THEN leaves({checked, Message("success", 0,
                                             "All events are already on blockchain")})
               ELSE /\ shown' = [shown EXCEPT ![s] = {checked}]
                    /\ loading' = TRUE
                    /\ navigation' = "none"
                    /\ direct' = (fetched = "direct")
                    /\ pc' = [pc EXCEPT ![s] = "preparing"]
                    /\ flight' = [flight EXCEPT ![s] = data]
                    /\ eventsNeedingTx' = [eventsNeedingTx EXCEPT ![s] = needing]
                    /\ pendingTransactions' = [pendingTransactions EXCEPT ![s] = <<>>]
            /\ UNCHANGED <<restVars, chainVars, dbVars, txCount, apiCall, cursor,
                           receipt, successCount, metamaskModalVisible, onComplete>>

(* flight/[flightId]/page.tsx: the page (re)loads its flight. *)
LoadFlightData ==
    LET s == "flight"
        data == FlightData(Db)
    IN  /\ pc[s] \in {"idle", "loaded"}
        /\ pc[s] = "idle" \/ flight[s] # data
        /\ pc' = [pc EXCEPT ![s] = "loaded"]
        /\ flight' = [flight EXCEPT ![s] = data]
        /\ UNCHANGED <<fixedVars, chainVars, dbVars, txCount, apiCall, eventsNeedingTx,
                       pendingTransactions, cursor, receipt, successCount, shown>>

(* GET /flight/{id}/blockchain-events: the blockchain_records rows of the  *)
(* flight's events, one for each event confirm recorded a reference for.   *)
blockchainEvents(data) ==
    LET ids == InIdOrder({e \in DOMAIN data : data[e].tx_hash # 0})
    IN  [k \in 1..Len(ids) |-> [event_id |-> ids[k], tx_hash |-> data[ids[k]].tx_hash,
                                block_number |-> data[ids[k]].block_number]]

(* The card with the 'Record Events on Blockchain' button is rendered when *)
(* flight.events.length > 0 && (!flight.blockchainEvents ||                *)
(* flight.blockchainEvents.length === 0).                                  *)
Offered(data) ==
    IF Len(blockchainEvents(data)) = 0 THEN Cardinality(DOMAIN data) > 0 ELSE FALSE

HandleRecordOnBlockchain ==
    LET s == "flight"
        needing == FilterNeedingTx(flight[s])
    IN  /\ pc[s] = "loaded"
        /\ Offered(flight[s])
        /\ needing # <<>>
        /\ pc' = [pc EXCEPT ![s] = "preparing"]
        /\ eventsNeedingTx' = [eventsNeedingTx EXCEPT ![s] = needing]
        /\ pendingTransactions' = [pendingTransactions EXCEPT ![s] = <<>>]
        /\ shown' = [shown EXCEPT ![s] = {}]
        /\ UNCHANGED <<fixedVars, chainVars, dbVars, txCount, apiCall, flight, cursor,
                       receipt, successCount>>

(* Where a page stands once its handler has returned. *)
Rest(s) == IF s = "home" THEN "idle" ELSE "loaded"

(* One turn of the preparation loop: prepareTransaction(event.id).  After  *)
(* the last turn the modal is shown when something was prepared.  When     *)
(* nothing was, the flight page shows an error, the home page reports the  *)
(* failure and leaves for the flight page on its main path, and has no     *)
(* branch for it on the path of its direct call.                           *)
PrepareTransaction(s) ==
    /\ pc[s] = "preparing"
    /\ LET e == Head(eventsNeedingTx[s])
           rest == Tail(eventsNeedingTx[s])
           res == prepare(Db, Storage, e, Block)
           transactions == IF res.ok
                           THEN Append(pendingTransactions[s],
                                       [event |-> e, transaction |-> res.body])
                           ELSE pendingTransactions[s]
           errors == IF res.ok THEN shown[s]
                     ELSE shown[s] \cup {Message(IF s = "home" THEN "error"
                                                 ELSE "warning", e, res.error)}
           refused == {m \in errors : m.event \in EventIds}
           first == CHOOSE m \in refused : \A n \in refused : m.event <= n.event
           none == IF rest = <<>> THEN transactions = <<>> ELSE FALSE
           fallsThrough == IF s = "home" THEN direct ELSE FALSE
       IN  /\ SetDb(res.db)
           /\ eventsNeedingTx' = [eventsNeedingTx EXCEPT ![s] = rest]
           /\ pendingTransactions' = [pendingTransactions EXCEPT ![s] = transactions]
           /\ pc' = [pc EXCEPT ![s] = IF rest # <<>> THEN "preparing"
                                      ELSE IF transactions # <<>> THEN "modal"
                                      ELSE Rest(s)]
           /\ shown' = [shown EXCEPT ![s] =
                          IF none /\ ~fallsThrough
                          THEN errors \cup {Message("error", first.event, first.detail)}
                          ELSE errors]
           /\ flight' = [flight EXCEPT ![s] =
                           IF none /\ s = "home" THEN NoFlight ELSE @]
           /\ direct' = IF s = "home" /\ rest = <<>> THEN FALSE ELSE direct
           /\ IF s # "home" \/ rest # <<>>
              THEN UNCHANGED <<loading, metamaskModalVisible, navigation>>
              ELSE IF transactions # <<>>
              THEN /\ loading' = FALSE
                   /\ metamaskModalVisible' = TRUE
                   /\ UNCHANGED navigation
              ELSE IF fallsThrough
              THEN UNCHANGED <<loading, metamaskModalVisible, navigation>>
              ELSE /\ loading' = FALSE
                   /\ navigation' = "handleSearch"
                   /\ UNCHANGED metamaskModalVisible
    /\ UNCHANGED <<restVars, chainVars, txCount, apiCall, cursor, receipt, successCount,
                   consoleVisible, onComplete>>

Cancelled ==
    Message("warning", 0,
            "Transactions cancelled. Events will not be recorded on blockchain.")

(* "Skip for Now": onCancel closes the modal and empties pendingTransactions; *)
(* the home page also warns and leaves for the flight page.                   *)
CancelModal(s) ==
    /\ pc[s] = "modal"
    /\ pc' = [pc EXCEPT ![s] = Rest(s)]
    /\ pendingTransactions' = [pendingTransactions EXCEPT ![s] = <<>>]
    /\ flight' = [flight EXCEPT ![s] = IF s = "home" THEN NoFlight ELSE @]
    /\ IF s = "home"
       THEN /\ metamaskModalVisible' = FALSE
            /\ navigation' = "onCancel"
            /\ shown' = [shown EXCEPT ![s] = @ \cup {Cancelled}]
       ELSE UNCHANGED <<metamaskModalVisible, navigation, shown>>
    /\ UNCHANGED <<restVars, chainVars, dbVars, txCount, apiCall, eventsNeedingTx,
                   cursor, receipt, successCount, loading, consoleVisible, direct,
                   onComplete>>

(* "Approve & Send": the loop over pendingTransactions starts. *)
HandleApproveTransactions(s) ==
    /\ pc[s] = "modal"
    /\ pc' = [pc EXCEPT ![s] = "sending"]
    /\ cursor' = [cursor EXCEPT ![s] = 1]
    /\ successCount' = [successCount EXCEPT ![s] = 0]
    /\ UNCHANGED <<fixedVars, chainVars, dbVars, txCount, apiCall, flight,
                   eventsNeedingTx, pendingTransactions, receipt, shown>>

(* The loop moves to its next transaction, or ends: the home page leaves   *)
(* for the flight page, the flight page reloads when something succeeded.  *)
Advance(s, db, messages, succeeded) ==
    LET last == cursor[s] = Len(pendingTransactions[s])
    IN  /\ shown' = [shown EXCEPT ![s] = messages]
        /\ receipt' = [receipt EXCEPT ![s] = NoReceipt]
        /\ pc' = [pc EXCEPT ![s] = IF last THEN Rest(s) ELSE "sending"]
        /\ cursor' = [cursor EXCEPT ![s] = IF last THEN 0 ELSE @ + 1]
        /\ successCount' = [successCount EXCEPT ![s] = IF last THEN 0 ELSE succeeded]
        /\ pendingTransactions' = [pendingTransactions EXCEPT ![s] =
                                      IF last THEN <<>> ELSE @]
        /\ flight' = [flight EXCEPT ![s] =
                        IF ~last THEN @
                        ELSE IF s = "home" THEN NoFlight
                        ELSE IF succeeded > 0 THEN FlightData(db) ELSE @]
        /\ IF last /\ s = "home"
           THEN /\ metamaskModalVisible' = FALSE
                /\ loading' = FALSE
                /\ navigation' = "handleApproveTransactions"
           ELSE UNCHANGED <<metamaskModalVisible, loading, navigation>>

(* sendPreparedTransaction: the wallet asks its user, who declines, or the *)
(* transaction is mined and tx.wait() returns its receipt.                 *)
SendPreparedTransaction(s) ==
    /\ pc[s] = "sending"
    /\ LET item == pendingTransactions[s][cursor[s]]
           r == recordEvent(Storage, Wallet(s), item.transaction.data, Block)
           failure(detail) == shown[s] \cup {Message("error", item.event, detail)}
       IN  \/ /\ Advance(s, Db, failure("User rejected transaction in MetaMask"),
                         successCount[s])
              /\ UNCHANGED <<chainVars, txCount>>
           \/ /\ txCount < MaxTx
              /\ txCount' = txCount + 1
              /\ Commit(r)
              /\ IF r.status = "revert"
                 THEN Advance(s, Db, failure(r.reason), successCount[s])
                 ELSE /\ pc' = [pc EXCEPT ![s] = "confirming"]
                      /\ receipt' = [receipt EXCEPT ![s] =
                                       [hash |-> txCount + 1, blockNumber |-> blockNumber,
                                        logs |-> r.logs]]
                      /\ UNCHANGED <<flight, pendingTransactions, cursor, successCount,
                                     shown, metamaskModalVisible, loading, navigation>>
    /\ UNCHANGED <<restVars, dbVars, apiCall, eventsNeedingTx, consoleVisible, direct,
                   onComplete>>

(* confirmTransaction(event.id, receipt.hash, Number(receipt.blockNumber)): *)
(* the home page logs a refusal as a warning, the flight page as an error.  *)
ConfirmTransaction(s) ==
    /\ pc[s] = "confirming"
    /\ LET item == pendingTransactions[s][cursor[s]]
           body == confirmTransaction(item.event, receipt[s].hash, receipt[s].blockNumber)
           res == confirm(Db, body.event_id, body.tx_hash, body.block_number)
           messages == IF res.ok THEN shown[s]
                       ELSE shown[s] \cup {Message(IF s = "home" THEN "warning"
                                                   ELSE "error", item.event, res.error)}
           succeeded == IF res.ok THEN successCount[s] + 1 ELSE successCount[s]
       IN  /\ SetDb(res.db)
           /\ Advance(s, res.db, messages, succeeded)
    /\ UNCHANGED <<restVars, chainVars, txCount, apiCall, eventsNeedingTx,
                   consoleVisible, direct, onComplete>>

(* Any account records an Event's fields itself: recordEvent is public. *)
OutsideRecord ==
    \E sender \in Accounts, e \in EventIds :
        /\ ~hashExists[EventArgs(e).dataHash]
        /\ Commit(recordEvent(Storage, sender, EventArgs(e), Block))
        /\ UNCHANGED <<fixedVars, offchainVars>>

AnchorNext ==
    \/ HandleSearch
    \/ LoadFlightData
    \/ HandleRecordOnBlockchain
    \/ \E s \in Sessions : PrepareTransaction(s)
    \/ \E s \in Sessions : CancelModal(s)
    \/ \E s \in Sessions : HandleApproveTransactions(s)
    \/ \E s \in Sessions : SendPreparedTransaction(s)
    \/ \E s \in Sessions : ConfirmTransaction(s)
    \/ OutsideRecord
    \/ NewBlock

AnchorSpec == Init /\ [][AnchorNext]_vars

(***************************************************************************)
(* The backend API under callers of any kind.                              *)
(***************************************************************************)
Called(op, e, res) ==
    [op |-> op, event |-> e, ok |-> res.ok, error |-> res.error, body |-> res.body]

sessionVars == <<pageVars, pc, flight, eventsNeedingTx, pendingTransactions, cursor, receipt,
                 successCount, shown>>

CallPrepare ==
    \E e \in EventIds :
        LET res == prepare(Db, Storage, e, Block)
        IN  /\ SetDb(res.db)
            /\ apiCall' = Called("prepare", e, res)
            /\ UNCHANGED <<fixedVars, chainVars, txCount, sessionVars>>

CallConfirm ==
    \E e \in EventIds, txHash \in 1..MaxTx :
        LET body == confirmTransaction(e, txHash, blockNumber)
            res == confirm(Db, body.event_id, body.tx_hash, body.block_number)
        IN  /\ SetDb(res.db)
            /\ apiCall' = Called("confirm", e, res)
            /\ UNCHANGED <<fixedVars, chainVars, txCount, sessionVars>>

CallFail ==
    \E e \in EventIds :
        LET res == fail(Db, e, "rejected")
        IN  /\ SetDb(res.db)
            /\ apiCall' = Called("fail", e, res)
            /\ UNCHANGED <<fixedVars, chainVars, txCount, sessionVars>>

ApiNext ==
    \/ CallPrepare
    \/ CallConfirm
    \/ CallFail
    \/ OutsideRecord
    \/ NewBlock

ApiSpec == Init /\ [][ApiNext]_vars

(***************************************************************************)
(* The web3.ts helpers called on their own, beside the prepare endpoint    *)
(* and a ledger that other accounts write to.                              *)
(***************************************************************************)
CallGetFlightEventsFromChain ==
    \E flightId \in FlightIds \ {""}, rpc \in ReadOutcomes :
        /\ web3Call' = [op |-> "getFlightEventsFromChain", flightId |-> flightId,
                        rpc |-> rpc,
                        ret |-> getFlightEventsFromChain(events, flightEventIndices,
                                                         flightId, rpc)]
        /\ UNCHANGED <<owner, authorizedBackend, lastTx, blockNumber, blockTimestamp,
                       chainVars, dbVars, txCount, apiCall, sessionVars, modalVars>>

(* What estimateGas can answer for an Event's recordEvent in this state. *)
Estimates(e) ==
    {gasEstimate(Storage, EventArgs(e), Block, request, gas) :
        request \in Requests, gas \in GasEstimates}

CallPrepareRecordEventTransaction ==
    \E e \in EventIds : \E estimate \in Estimates(e) :
        LET r == prepareRecordEventTransaction(Storage, Registry, EventArgs(e), estimate)
        IN  /\ web3Call' = [op |-> "prepareRecordEventTransaction", event |-> e,
                            estimate |-> estimate, threw |-> r.threw, ret |-> r.value]
            /\ events' = r.st.events
            /\ flightEventIndices' = r.st.flightEventIndices
            /\ hashExists' = r.st.hashExists
            /\ totalEventsRecorded' = r.st.totalEventsRecorded
            /\ UNCHANGED <<owner, authorizedBackend, lastTx, blockNumber, blockTimestamp,
                           notifications, dbVars, txCount, apiCall, sessionVars,
                           modalVars>>

(* recordEventViaMetaMask: estimate, then the wallet's signer sends         *)
(* recordEvent with the buffered gas limit and waits for the receipt.       *)
CallRecordEventViaMetaMask ==
    \E e \in EventIds : \E estimate \in Estimates(e) :
        LET r == recordEvent(Storage, Wallet("flight"), EventArgs(e), Block)
        IN  /\ txCount < MaxTx
            /\ IF ~estimate.ok
               THEN /\ web3Call' = [op |-> "recordEventViaMetaMask", event |-> e,
                                    estimate |-> estimate, threw |-> TRUE,
                                    ret |-> NoReceipt]
                    /\ UNCHANGED <<chainVars, txCount>>
               ELSE /\ web3Call' = [op |-> "recordEventViaMetaMask", event |-> e,
                                    estimate |-> estimate, threw |-> FALSE,
                                    ret |-> [hash |-> txCount + 1,
                                             blockNumber |-> blockNumber,
                                             gasLimit |-> gasLimit(estimate.gas)]]
                    /\ txCount' = txCount + 1
                    /\ Commit(r)
            /\ UNCHANGED <<owner, authorizedBackend, lastTx, blockNumber, blockTimestamp,
                           dbVars, apiCall, sessionVars, modalVars>>

Web3Next ==
    \/ CallGetFlightEventsFromChain
    \/ CallPrepareRecordEventTransaction
    \/ CallRecordEventViaMetaMask
    \/ CallPrepare
    \/ OutsideRecord
    \/ NewBlock

Web3Spec == Init /\ [][Web3Next]_vars

(***************************************************************************)
(* One visit of the home page, whose modal stays open while its            *)
(* transactions are processed: "Approve & Send" can be activated again.    *)
(***************************************************************************)
NotApproved == \A k \in 1..MaxApprove : approvals[k].pc = "none"

homeVars == <<flight, eventsNeedingTx, pendingTransactions, cursor, receipt, successCount>>

(* onOk={handleApproveTransactions}: an invocation starts on the           *)
(* pendingTransactions it sees; the modal is not closed.                   *)
Approve(k) ==
    /\ pc["home"] = "modal"
    /\ approvals[k].pc = "none"
    /\ \A j \in 1..(k - 1) : approvals[j].pc # "none"
    /\ approvals' = [approvals EXCEPT ![k] =
                        [pc |-> "sending", i |-> 1,
                         transactions |-> pendingTransactions["home"],
                         receipt |-> NoReceipt, got |-> <<>>]]
    /\ UNCHANGED <<owner, authorizedBackend, lastTx, blockNumber, blockTimestamp,
                   web3Call, chainVars, dbVars, txCount, apiCall, pc, shown, homeVars,
                   handed, confirmCalls, pageVars>>

(* The turn of the loop is over: i++, or the modal is closed and the page  *)
(* leaves for the flight page.                                             *)
Turn(k, messages, mined) ==
    LET a == approvals[k]
        last == a.i = Len(a.transactions)
    IN  /\ approvals' = [approvals EXCEPT ![k] =
                            [pc |-> IF last THEN "done" ELSE "sending",
                             i |-> IF last THEN a.i ELSE a.i + 1,
                             transactions |-> a.transactions,
                             receipt |-> NoReceipt,
                             got |-> Append(a.got, mined)]]
        /\ shown' = [shown EXCEPT !["home"] = messages]
        /\ pc' = [pc EXCEPT !["home"] = IF last THEN "idle" ELSE @]
        /\ IF last
           THEN /\ metamaskModalVisible' = FALSE
                /\ loading' = FALSE
                /\ navigation' = "handleApproveTransactions"
           ELSE UNCHANGED <<metamaskModalVisible, loading, navigation>>

Send(k) ==
    /\ approvals[k].pc = "sending"
    /\ LET a == approvals[k]
           item == a.transactions[a.i]
           r == recordEvent(Storage, Wallet("home"), item.transaction.data, Block)
           failure(detail) == shown["home"] \cup {Message("error", item.event, detail)}
       IN  /\ handed' = Append(handed, item.event)
           /\ \/ /\ Turn(k, failure("User rejected transaction in MetaMask"), NoReceipt)
                 /\ UNCHANGED <<chainVars, txCount>>
              \/ /\ txCount < MaxTx
                 /\ txCount' = txCount + 1
                 /\ Commit(r)
                 /\ IF r.status = "revert"
                    THEN Turn(k, failure(r.reason), NoReceipt)
                    ELSE /\ approvals' = [approvals EXCEPT ![k] =
                                            [a EXCEPT !.pc = "confirming",
                                                      !.receipt =
                                                         [hash |-> txCount + 1,
                                                          blockNumber |-> blockNumber,
                                                          logs |-> r.logs]]]
                         /\ UNCHANGED <<pc, shown, metamaskModalVisible, loading,
                                        navigation>>
    /\ UNCHANGED <<owner, authorizedBackend, lastTx, blockNumber, blockTimestamp,
                   web3Call, dbVars, apiCall, homeVars, confirmCalls, consoleVisible,
                   direct, onComplete>>

Confirm(k) ==
    /\ approvals[k].pc = "confirming"
    /\ LET a == approvals[k]
           item == a.transactions[a.i]
           body == confirmTransaction(item.event, a.receipt.hash, a.receipt.blockNumber)
           res == confirm(Db, body.event_id, body.tx_hash, body.block_number)
           messages == IF res.ok THEN shown["home"]
                       ELSE shown["home"] \cup {Message("warning", item.event, res.error)}
       IN  /\ SetDb(res.db)
           /\ confirmCalls' = Append(confirmCalls, body)
           /\ Turn(k, messages, a.receipt)
    /\ UNCHANGED <<owner, authorizedBackend, lastTx, blockNumber, blockTimestamp,
                   web3Call, chainVars, txCount, apiCall, homeVars, handed,
                   consoleVisible, direct, onComplete>>

(* BlockchainConsole: its interval has shown every log and hands the       *)
(* onComplete of the current render to setTimeout(onComplete, 1000).       *)
ConsoleFinished ==
    /\ consoleVisible
    /\ ~onComplete.scheduled
    /\ onComplete' = [scheduled |-> TRUE, metamaskModalVisible |-> metamaskModalVisible,
                      loading |-> loading]
    /\ UNCHANGED <<owner, authorizedBackend, lastTx, blockNumber, blockTimestamp,
                   chainVars, dbVars, txCount, apiCall, web3Call, modalVars, pc, shown,
                   homeVars, loading, metamaskModalVisible, consoleVisible, direct,
                   navigation>>

handleConsoleComplete_Unguarded(modalVisible, isLoading, flightNumber) ==
    flightNumber # ""

(* if (!metamaskModalVisible && !loading && flightNumber) router.push(...) *)
handleConsoleComplete(modalVisible, isLoading, flightNumber) ==
    IF modalVisible THEN FALSE
    ELSE IF isLoading THEN FALSE
    ELSE flightNumber # ""

(* The timer fires the callback it holds. *)
ConsoleComplete ==
    /\ onComplete.scheduled
    /\ onComplete' = NoTimer
    /\ navigation' = IF handleConsoleComplete(onComplete.metamaskModalVisible,
                                              onComplete.loading, FlightNumber)
                     THEN "handleConsoleComplete"
                     ELSE navigation
    /\ UNCHANGED <<owner, authorizedBackend, lastTx, blockNumber, blockTimestamp,
                   chainVars, dbVars, txCount, apiCall, web3Call, modalVars, pc, shown,
                   homeVars, loading, metamaskModalVisible, consoleVisible, direct>>

(* The search card is rendered while the console is not: one search a visit. *)
ModalNext ==
    \/ NotApproved /\ ~consoleVisible /\ HandleSearch
    \/ PrepareTransaction("home")
    \/ CancelModal("home")
    \/ \E k \in 1..MaxApprove : Approve(k)
    \/ \E k \in 1..MaxApprove : Send(k)
    \/ \E k \in 1..MaxApprove : Confirm(k)
    \/ NewBlock

ModalSpec == Init /\ [][ModalNext]_vars

(* The same visit with the console's timer, in one block. *)
ConsoleNext ==
    \/ ~consoleVisible /\ HandleSearch
    \/ PrepareTransaction("home")
    \/ CancelModal("home")
    \/ \E k \in 1..MaxApprove : Approve(k)
    \/ \E k \in 1..MaxApprove : Send(k)
    \/ \E k \in 1..MaxApprove : Confirm(k)
    \/ ConsoleFinished
    \/ ConsoleComplete

ConsoleSpec == Init /\ [][ConsoleNext]_vars

(***************************************************************************)
(* Properties of the ledger.                                               *)
(***************************************************************************)

\* C1: in every reachable state, whatever the interleaving of recordEvent
\* and recordEvents calls, no two ledger entries carry the same dataHash.
C1_UniqueDigests ==
    \A i, j \in 1..Len(events) : i # j => events[i].dataHash # events[j].dataHash

\* A digest already on a ledger of two entries was submitted again.
C1_Witness ==
    /\ Len(events) >= 2
    /\ lastTx.op = "recordEvent"
    /\ lastTx.status = "success"
    /\ lastTx.logs = <<>>
    /\ \E i \in 1..Len(events) : events[i].dataHash = lastTx.args.dataHash

\* C2: a recordEvent call whose digest is already on the ledger fails, with
\* the error "Event with this hash already exists" when nothing else is
\* wrong with it, and leaves the ledger length unchanged.
C2_DuplicateReverts ==
    [][(/\ lastTx = NoTx
        /\ lastTx'.op = "recordEvent"
        /\ hashExists[lastTx'.args.dataHash])
       => (/\ lastTx'.status = "revert"
           /\ (/\ lastTx'.args.flightId # ""
               /\ lastTx'.args.eventType # ""
               /\ lastTx'.args.timestamp > 0)
              => lastTx'.reason = "Event with this hash already exists"
           /\ Len(events') = Len(events))]_vars

C5_IndexIsPosition ==
    [][(lastTx = NoTx /\ lastTx'.op \in {"recordEvent", "recordEvents"})
       => (/\ Len(events') = Len(events) + Len(lastTx'.logs)
           /\ \A k \in 1..Len(lastTx'.logs) :
                 lastTx'.logs[k].eventIndex = Len(events) + k - 1
           /\ (lastTx'.op = "recordEvent" /\ Len(events') > Len(events))
              => lastTx'.ret = Len(events') - 1)]_vars

\* The second appending insertion, for another flight than the first, got 1.
C5_Witness ==
    /\ lastTx.op = "recordEvent"
    /\ lastTx.status = "success"
    /\ Len(lastTx.logs) = 1
    /\ lastTx.ret = 1
    /\ Len(events) = 2
    /\ events[1].flightId # events[2].flightId

\* C6: once an entry exists at index i, every later operation leaves
\* getEvent(i) returning the same seven fields, and the number of entries
\* never decreases.
C6_AppendOnly ==
    [][/\ getTotalEvents(events') >= getTotalEvents(events)
       /\ \A i \in 0..(Len(events) - 1) :
             getEvent(events', i) = getEvent(events, i)]_vars

\* Two entries exist, owner and backend were both changed, and a batch has
\* just failed.
C6_Witness ==
    /\ Len(events) >= 2
    /\ owner # Deployer
    /\ authorizedBackend # Deployer
    /\ lastTx.op = "recordEvents"
    /\ lastTx.status = "revert"

\* C7: for every flightId f, getFlightEventIndices(f) is exactly the
\* increasing sequence of the indices of the entries whose flightId is f,
\* getFlightEventCount(f) is its length, and for a flightId without entries
\* it is the empty sequence.
C7_PerFlightIndex ==
    \A f \in FlightIds :
        LET Mine(i) == events[i + 1].flightId = f
            expected == SelectSeq([k \in 1..Len(events) |-> k - 1], Mine)
        IN  /\ getFlightEventIndices(flightEventIndices, f) = expected
            /\ getFlightEventCount(flightEventIndices, f) = Len(expected)
            /\ (\A i \in 1..Len(events) : events[i].flightId # f)
               => getFlightEventIndices(flightEventIndices, f) = <<>>

\* One flight holds the entries 0 and 1 and another flight holds none.
C7_Witness ==
    /\ getFlightEventIndices(flightEventIndices, "DL456") = <<0, 1>>
    /\ getFlightEventCount(flightEventIndices, "UA123") = 0
    /\ getFlightEventIndices(flightEventIndices, "UA123") = <<>>

\* C8: after a successful recordEvent(flightId, eventType, timestamp, actor,
\* dataHash) returning i, getEvent(i) returns those five values, with the
\* block number and block time of the inserting transaction.
C8_StoredVerbatim ==
    (lastTx.op = "recordEvent" /\ lastTx.status = "success")
    => getEvent(events, lastTx.ret) =
         <<lastTx.args.flightId, lastTx.args.eventType, lastTx.args.timestamp,
           lastTx.args.actor, lastTx.args.dataHash,
           lastTx.blockNumber, lastTx.blockTimestamp>>

\* C9: recordEvent with an empty flightId, an empty eventType, a timestamp
\* of 0 or the zero digest is rejected and changes nothing: entries,
\* per-flight lists, digest set and counter are as before and no
\* EventRecorded is emitted.
C9_InvalidRejected ==
    [][(/\ lastTx = NoTx
        /\ lastTx'.op = "recordEvent"
        /\ \/ lastTx'.args.flightId = ""
           \/ lastTx'.args.eventType = ""
           \/ lastTx'.args.timestamp = 0
           \/ lastTx'.args.dataHash = ZeroHash)
       => (/\ lastTx'.status = "revert"
           /\ lastTx'.logs = <<>>
           /\ events' = events
           /\ flightEventIndices' = flightEventIndices
           /\ hashExists' = hashExists
           /\ totalEventsRecorded' = totalEventsRecorded)]_vars

\* A call with timestamp 0 and a fresh digest was rejected on a ledger that
\* holds an entry.
C9_Witness ==
    /\ lastTx.op = "recordEvent"
    /\ lastTx.args.timestamp = 0
    /\ lastTx.args.flightId # ""
    /\ lastTx.args.eventType # ""
    /\ lastTx.args.dataHash # ZeroHash
    /\ ~hashExists[lastTx.args.dataHash]
    /\ lastTx.status = "revert"
    /\ lastTx.reason = "Invalid timestamp"
    /\ Len(events) >= 1

\* C10: verifyHash(d) is a boolean for every d, true exactly when some
\* ledger entry has dataHash d.
C10_VerifyHashIffRecorded ==
    \A d \in Hashes :
        /\ verifyHash(hashExists, d) \in BOOLEAN
        /\ verifyHash(hashExists, d) <=> \E i \in 1..Len(events) : events[i].dataHash = d

\* A recorded digest reads true while a digest that was only submitted in
\* a failed batch reads false.
C10_Witness ==
    /\ Len(events) >= 1
    /\ verifyHash(hashExists, events[1].dataHash)
    /\ lastTx.op = "recordEvents"
    /\ lastTx.status = "revert"
    /\ \E k \in 1..Len(lastTx.args.dataHashes) :
          /\ lastTx.args.dataHashes[k] # ZeroHash
          /\ ~verifyHash(hashExists, lastTx.args.dataHashes[k])

\* C11: getFlightEvents(f, start, count) fails with "Start index out of
\* bounds" when start is not less than the number of entries of flight f;
\* otherwise it returns exactly the entries at the per-flight positions
\* start .. min(start + count, len) - 1, in insertion order.
C11_RangeOfFlight ==
    \A f \in FlightIds : \A start \in 0..MaxUint : \A count \in 0..MaxUint :
        LET Mine(e) == e.flightId = f
            mine == SelectSeq(events, Mine)
            last == IF start + count < Len(mine) THEN start + count ELSE Len(mine)
            r == getFlightEvents(events, flightEventIndices, f, start, count)
        IN  IF start >= Len(mine)
            THEN ~r.ok /\ r.error = "Start index out of bounds"
            ELSE r.ok /\ r.result = SubSeq(mine, start + 1, last)

\* C12: for every start below the flight's entry count and every count of
\* the unsigned width, getFlightEvents succeeds and returns
\* min(start + count, len) - start entries, also when start + count is more
\* than the largest unsigned value.
C12_ClampsEveryCount ==
    \A f \in FlightIds : \A start \in 0..MaxUint : \A count \in 0..MaxUint :
        LET len == Len(flightEventIndices[f])
            r == getFlightEvents(events, flightEventIndices, f, start, count)
        IN  start < len
            => (/\ r.ok
                /\ Len(r.result) =
                     (IF start + count < len THEN start + count ELSE len) - start)

\* C13: getEvent(index) fails with "Event index out of bounds" exactly when
\* index is greater than or equal to the number of entries, and returns
\* seven fields for every smaller index.
C13_GetEventBounds ==
    \A index \in 0..MaxUint :
        LET r == getEvent(events, index)
        IN  IF index >= Len(events)
            THEN r = [error |-> "Event index out of bounds"]
            ELSE DOMAIN r = 1..7

\* With two entries, index 1 is served and index 2 is refused.
C13_Witness ==
    /\ Len(events) = 2
    /\ DOMAIN getEvent(events, 1) = 1..7
    /\ getEvent(events, 2) = [error |-> "Event index out of bounds"]

\* C14: every insertion that appends an entry emits exactly one
\* EventRecorded carrying the index, flightId, eventType, timestamp,
\* dataHash and blockNumber of that entry, a call that appends nothing
\* emits none, and the number of notifications always equals the number
\* of entries.
C14_OneNotificationPerEntry ==
    /\ [](notifications = Len(events))
    /\ [][lastTx = NoTx /\ lastTx' # NoTx
          => LET recorded == SelectSeq(lastTx'.logs,
                                       LAMBDA l : l.name = "EventRecorded")
             IN  /\ Len(recorded) = Len(events') - Len(events)
                 /\ \A k \in 1..Len(recorded) :
                       LET e == events'[Len(events) + k]
                       IN  /\ recorded[k].eventIndex = Len(events) + k - 1
                           /\ recorded[k].flightId = e.flightId
                           /\ recorded[k].eventType = e.eventType
                           /\ recorded[k].timestamp = e.timestamp
                           /\ recorded[k].dataHash = e.dataHash
                           /\ recorded[k].blockNumber = e.blockNumber]_vars

\* A batch of two items appended one entry and skipped the other: one
\* notification for it, two notifications and two entries in all.
C14_Witness ==
    /\ lastTx.op = "recordEvents"
    /\ lastTx.status = "success"
    /\ lastTx.ret = 2
    /\ Len(lastTx.logs) = 1
    /\ notifications = 2
    /\ Len(events) = 2
    /\ blockNumber = 2

\* C15: initially owner and authorizedBackend are the deployer and the
\* ledger is empty; authorizeBackend called by the current owner with a
\* non-zero address sets authorizedBackend to it and emits
\* BackendAuthorized; any other call fails, with "Only owner ..." when the
\* caller is not the owner, and leaves authorizedBackend unchanged.
C15_AuthorizeBackend ==
    /\ owner = Deployer /\ authorizedBackend = Deployer /\ events = <<>>
    /\ [][lastTx = NoTx /\ lastTx'.op = "authorizeBackend"
          => IF lastTx'.sender = owner /\ lastTx'.args # ZeroAddress
             THEN /\ lastTx'.status = "success"
                  /\ authorizedBackend' = lastTx'.args
                  /\ lastTx'.logs = <<[name |-> "BackendAuthorized",
                                       backend |-> lastTx'.args]>>
             ELSE /\ lastTx'.status = "revert"
                  /\ lastTx'.logs = <<>>
                  /\ authorizedBackend' = authorizedBackend
                  /\ lastTx'.sender # owner
                     => lastTx'.reason = "Only owner can call this function"]_vars

\* The authorized backend, which is not the owner, tried to authorize the
\* owner's account and was refused.
C15_Witness ==
    /\ lastTx.op = "authorizeBackend"
    /\ lastTx.sender = authorizedBackend
    /\ lastTx.sender # owner
    /\ lastTx.args = owner
    /\ lastTx.status = "revert"
    /\ lastTx.reason = "Only owner can call this function"

(***************************************************************************)
(* Properties of the ledger as a whole.                                    *)
(***************************************************************************)

\* C31: in every reachable state totalEventsRecorded, getTotalEvents, the
\* sum of getFlightEventCount over the flight ids and the number of digests
\* verifyHash knows are one number; and a recordEvent or recordEvents
\* transaction changes neither owner nor authorizedBackend.
C31_OneCount ==
    /\ [](/\ totalEventsRecorded = getTotalEvents(events)
          /\ totalEventsRecorded =
               Cardinality(UNION {{<<f, k>> : k \in 1..getFlightEventCount(flightEventIndices, f)} :
                                     f \in FlightIds})
          /\ totalEventsRecorded =
               Cardinality({h \in Hashes : verifyHash(hashExists, h)}))
    /\ [][lastTx = NoTx /\ lastTx'.op \in {"recordEvent", "recordEvents"}
          => owner' = owner /\ authorizedBackend' = authorizedBackend]_vars

\* Two entries of two flights are counted, the last of them by a batch.
C31_Witness ==
    /\ totalEventsRecorded = 2
    /\ events[1].flightId # events[2].flightId
    /\ lastTx.op = "recordEvents"
    /\ Len(lastTx.logs) = 1

\* C32: when a recordEvent transaction returns normally with value i, the
\* ledger entry at index i carries the five fields submitted in that call.
C32_ReturnedIndexIsOwn ==
    [][lastTx = NoTx /\ lastTx'.op = "recordEvent" /\ lastTx'.status = "success"
       => /\ lastTx'.ret < Len(events')
          /\ LET evt == events'[lastTx'.ret + 1]
                 a == lastTx'.args
             IN  /\ evt.dataHash = a.dataHash
                 /\ evt.flightId = a.flightId
                 /\ evt.eventType = a.eventType
                 /\ evt.timestamp = a.timestamp
                 /\ evt.actor = a.actor]_vars

\* C34: a recordEvents whose arrays differ in length, or one of whose items
\* has an empty flightId, an empty eventType, a zero timestamp or a zero
\* digest, reverts and records nothing: entries, per-flight lists, digest
\* set, counter and logs are as before, whatever valid items precede.
C34_BatchAllOrNothing ==
    [][lastTx = NoTx /\ lastTx'.op = "recordEvents"
       => LET b == lastTx'.args
              n == Len(b.flightIds)
              ragged == Len(b.eventTypes) # n \/ Len(b.timestamps) # n
                           \/ Len(b.actors) # n \/ Len(b.dataHashes) # n
              invalid == \/ \E i \in 1..Len(b.flightIds) : b.flightIds[i] = ""
                         \/ \E i \in 1..Len(b.eventTypes) : b.eventTypes[i] = ""
                         \/ \E i \in 1..Len(b.timestamps) : b.timestamps[i] = 0
                         \/ \E i \in 1..Len(b.dataHashes) : b.dataHashes[i] = ZeroHash
          IN  ragged \/ invalid
                 => /\ lastTx'.status = "revert"
                    /\ lastTx'.logs = <<>>
                    /\ UNCHANGED <<events, flightEventIndices, hashExists,
                                   totalEventsRecorded, notifications>>]_vars

\* A batch was rejected for its second item, after a first item that was
\* valid and whose digest the ledger does not hold.
C34_Witness ==
    /\ lastTx.op = "recordEvents"
    /\ lastTx.status = "revert"
    /\ Len(lastTx.args.flightIds) = 2
    /\ Len(lastTx.args.dataHashes) = 2
    /\ ValidationError([flightId |-> lastTx.args.flightIds[1],
                        eventType |-> lastTx.args.eventTypes[1],
                        timestamp |-> lastTx.args.timestamps[1],
                        actor |-> lastTx.args.actors[1],
                        dataHash |-> lastTx.args.dataHashes[1]]) = ""
    /\ ~hashExists[lastTx.args.dataHashes[1]]
    /\ lastTx.reason # "Array lengths mismatch"

\* C35 as stated: after a successful transferOwnership the caller is no
\* longer the owner.
C35_PreviousOwnerLocked ==
    [][lastTx = NoTx /\ lastTx'.op = "transferOwnership" /\ lastTx'.status = "success"
       => ~onlyOwner(Storage', lastTx'.sender)]_vars

\* C35: transferOwnership succeeds exactly when its caller is the owner and
\* the new owner is not the zero address; it then sets owner and leaves
\* authorizedBackend, entries, per-flight lists, digest set and counter
\* alone; when the new owner is another address than the caller, the caller
\* is no longer the owner and its authorizeBackend calls revert.  Any other
\* call reverts and changes nothing.
C35_TransferOwnership ==
    [][lastTx = NoTx /\ lastTx'.op = "transferOwnership"
       => IF lastTx'.sender = owner /\ lastTx'.args # ZeroAddress
          THEN /\ lastTx'.status = "success"
               /\ owner' = lastTx'.args
               /\ UNCHANGED <<authorizedBackend, events, flightEventIndices,
                              hashExists, totalEventsRecorded>>
               /\ lastTx'.args # lastTx'.sender
                  => /\ ~onlyOwner(Storage', lastTx'.sender)
                     /\ \A a \in Addresses :
                           authorizeBackend(Storage', lastTx'.sender, a).status = "revert"
          ELSE /\ lastTx'.status = "revert"
               /\ UNCHANGED <<owner, authorizedBackend, events, flightEventIndices,
                              hashExists, totalEventsRecorded>>]_vars

\* Ownership went to another account while the ledger held an entry and the
\* authorized backend was still the previous owner.
C35_Witness ==
    /\ lastTx.op = "transferOwnership"
    /\ lastTx.status = "success"
    /\ owner # lastTx.sender
    /\ authorizedBackend = lastTx.sender
    /\ Len(events) >= 1

(***************************************************************************)
(* Properties of the off-chain Events.                                     *)
(***************************************************************************)

\* C16: confirm succeeds only on an Event that is Pending, which it turns
\* Confirmed; on an Unanchored, Confirmed or Failed Event (a second confirm
\* of the same Event included) it answers InvalidState and leaves every
\* Event as it was.
C16_ConfirmOnlyPending ==
    [][apiCall' # apiCall /\ apiCall'.op = "confirm" =>
          IF anchorStatus[apiCall'.event] = "Pending"
          THEN /\ apiCall'.ok
               /\ anchorStatus'[apiCall'.event] = "Confirmed"
          ELSE /\ ~apiCall'.ok
               /\ apiCall'.error = "InvalidState"
               /\ UNCHANGED dbVars]_vars

\* A second confirm of a Confirmed Event has been refused.
C16_Witness ==
    /\ apiCall.op = "confirm"
    /\ ~apiCall.ok
    /\ anchorStatus[apiCall.event] = "Confirmed"
    /\ anchorRef[apiCall.event] # NoRef

\* C17: prepare is accepted only for an Event that is Unanchored or Failed,
\* and answers AlreadyAnchored for a Confirmed and InvalidState for a
\* Pending Event, changing nothing; so no two sessions hold a descriptor for
\* the same Event; and a page asks for the preparation only of events whose
\* is_verified flag it saw false.
C17_PrepareGuard ==
    /\ [](\A e \in EventIds :
             Cardinality({s \in Sessions :
                 \E k \in 1..Len(pendingTransactions[s]) :
                     pendingTransactions[s][k].event = e}) <= 1)
    /\ [][\A s \in Sessions :
            pc[s] = "preparing" /\ eventsNeedingTx'[s] # eventsNeedingTx[s] =>
              LET e == Head(eventsNeedingTx[s])
                  refusal == IF anchorStatus[e] = "Confirmed" THEN "AlreadyAnchored"
                             ELSE "InvalidState"
              IN  /\ ~flight[s][e].is_verified
                  /\ IF anchorStatus[e] \in {"Unanchored", "Failed"}
                     THEN /\ anchorStatus'[e] = "Pending"
                          /\ Len(pendingTransactions'[s]) = Len(pendingTransactions[s]) + 1
                          /\ pendingTransactions'[s][Len(pendingTransactions'[s])]
                               = [event |-> e, transaction |-> issued'[e]]
                     ELSE /\ UNCHANGED dbVars
                          /\ pendingTransactions'[s] = pendingTransactions[s]
                          /\ \E m \in shown'[s] : m.event = e /\ m.detail = refusal]_vars

\* The flight page, with a stale list, was refused an Event another session
\* had confirmed, while the home page was refused one that was Pending.
C17_Witness ==
    /\ \E m \in shown["flight"] : m.detail = "AlreadyAnchored"
    /\ \E m \in shown["home"] : m.detail = "InvalidState"

C19_RefIffConfirmed ==
    /\ [](\A e \in EventIds :
             (anchorRef[e].tx_hash # 0 /\ anchorRef[e].block_number # 0)
                <=> anchorStatus[e] = "Confirmed")
    /\ [](\A e \in EventIds :
             anchorStatus[e] # "Confirmed" => anchorRef[e] = NoRef)
    /\ [][\A e \in EventIds :
            anchorStatus'[e] # anchorStatus[e] =>
              /\ <<anchorStatus[e], anchorStatus'[e]>> \in
                    {<<"Unanchored", "Pending">>, <<"Pending", "Confirmed">>,
                     <<"Pending", "Failed">>, <<"Failed", "Pending">>}
              /\ anchorStatus[e] = "Failed" =>
                    apiCall'.op = "prepare" /\ apiCall'.event = e /\ apiCall'.ok]_vars

\* An Event failed, was prepared again and confirmed, while the other Event
\* sits Failed with no reference.
C19_Witness ==
    \E e, f \in EventIds :
        /\ anchorStatus[e] = "Confirmed"
        /\ failReason[e] # ""
        /\ anchorRef[e].tx_hash # 0
        /\ anchorStatus[f] = "Failed"
        /\ anchorRef[f] = NoRef

C21_FailureIsNotEmpty ==
    web3Call.op = "getFlightEventsFromChain" /\ web3Call.rpc.indices # "ok"
        => web3Call.ret # <<>>

\* C22: a getFlightEventsFromChain that read the flight's index list returns
\* one entry for every index of getFlightEventIndices(flightId), in that
\* order, each with the fields the ledger holds at that index.
C22_ReadIsComplete ==
    [][web3Call' # web3Call /\ web3Call'.op = "getFlightEventsFromChain"
         /\ web3Call'.rpc.indices = "ok" =>
          LET indices == flightEventIndices[web3Call'.flightId]
              ret == web3Call'.ret
          IN  /\ Len(ret) = Len(indices)
              /\ \A k \in 1..Len(indices) :
                    /\ ret[k].flightId = events[indices[k] + 1].flightId
                    /\ ret[k].dataHash = events[indices[k] + 1].dataHash
                    /\ ret[k].blockNumber = events[indices[k] + 1].blockNumber]_vars

\* C23: when estimateGas answers, the gas of the prepared descriptor is the
\* estimate inflated by 20%: estimate * 120 / 100, rounded down.
C23_GasHasMargin ==
    web3Call.op = "prepareRecordEventTransaction" /\ web3Call.estimate.ok
        => web3Call.ret.gas = (web3Call.estimate.gas * 120) \div 100

\* C24: when estimateGas fails, prepareRecordEventTransaction still returns
\* a descriptor for the contract and the event's call, with gas 300000.
C24_EstimateFallback ==
    web3Call.op = "prepareRecordEventTransaction" /\ ~web3Call.estimate.ok
        => /\ ~web3Call.threw
           /\ web3Call.ret.to = Registry
           /\ web3Call.ret.data = EventArgs(web3Call.event)
           /\ web3Call.ret.gas = 300000

\* A descriptor was prepared although the estimation had failed.
C24_Witness ==
    /\ web3Call.op = "prepareRecordEventTransaction"
    /\ ~web3Call.estimate.ok
    /\ web3Call.ret.to = Registry

\* C25: a step that prepares a descriptor, through the prepare endpoint or
\* through prepareRecordEventTransaction, leaves the entry list, the
\* per-flight index lists, the digest set, the counter and the logs as they
\* were, and no transaction is sent or mined by it.
C25_PrepareLeavesLedger ==
    [][\/ web3Call' # web3Call /\ web3Call'.op = "prepareRecordEventTransaction"
       \/ apiCall' # apiCall /\ apiCall'.op = "prepare"
       => UNCHANGED <<events, flightEventIndices, hashExists, totalEventsRecorded,
                      notifications, txCount, lastTx>>]_vars

\* Both ways of preparing have produced a descriptor for an Event whose
\* digest the ledger does not hold, and no wallet has sent anything.
C25_Witness ==
    /\ web3Call.op = "prepareRecordEventTransaction"
    /\ ~web3Call.threw
    /\ ~hashExists[EventArgs(web3Call.event).dataHash]
    /\ apiCall.op = "prepare"
    /\ apiCall.ok
    /\ apiCall.event = web3Call.event
    /\ txCount = 0

(***************************************************************************)
(* Properties of the pages' search and approval.                           *)
(***************************************************************************)

\* C28: a home-page search whose chain read succeeded while the ledger held
\* an entry under the searched flight number goes to the flight page; it
\* does not go on to fetch the flight and prepare transactions.
C28_SearchShortCircuits ==
    [][/\ pc["home"] = "idle" /\ pc'["home"] = "preparing"
       /\ Message("info", 0, "Blockchain check skipped") \notin shown'["home"]
       => getFlightEventCount(flightEventIndices, FlightNumber) = 0]_vars

\* C26: within one approval modal of the home page every prepared
\* transaction is handed to the signer at most once, however often the
\* approve action is activated.
C26_HandedAtMostOnce ==
    \A e \in EventIds : Cardinality({j \in 1..Len(handed) : handed[j] = e}) <= 1

\* C27: when an invocation of the approval loop has ended, every one of its
\* N transactions has had its turn; for each that produced a receipt,
\* confirmTransaction was called exactly once for its event, with that
\* receipt's hash and block number; for each that produced none it was not
\* called for its event, which is not Confirmed.
C27_PartialCompletion ==
    \A k \in 1..MaxApprove :
        approvals[k].pc = "done" =>
            LET a == approvals[k]
                calls(e) == {c \in 1..Len(confirmCalls) : confirmCalls[c].event_id = e}
            IN  /\ Len(a.got) = Len(a.transactions)
                /\ \A j \in 1..Len(a.transactions) :
                      LET e == a.transactions[j].event
                      IN  IF a.got[j].hash # 0
                          THEN /\ Cardinality(calls(e)) = 1
                               /\ \A c \in calls(e) :
                                     /\ confirmCalls[c].tx_hash = a.got[j].hash
                                     /\ confirmCalls[c].block_number = a.got[j].blockNumber
                          ELSE /\ calls(e) = {}
                               /\ anchorStatus[e] # "Confirmed"

\* The same, as long as "Approve & Send" was activated once.
C27_OneActivation ==
    (\A k \in 2..MaxApprove : approvals[k].pc = "none") => C27_PartialCompletion

\* One activation ended with a receipt for its second transaction only.
C27_OneActivationWitness ==
    /\ approvals[1].pc = "done"
    /\ \A k \in 2..MaxApprove : approvals[k].pc = "none"
    /\ Len(approvals[1].got) = 2
    /\ approvals[1].got[1].hash = 0
    /\ approvals[1].got[2].hash # 0
    /\ anchorStatus[approvals[1].transactions[2].event] = "Confirmed"

(***************************************************************************)
(* Properties of the batch call.                                           *)
(***************************************************************************)

\* C29: the value a successful recordEvents returns is the number of ledger
\* entries that call appended, the increase of getTotalEvents.
C29_BatchReturnsRecorded ==
    [][lastTx' # lastTx /\ lastTx'.op = "recordEvents" /\ lastTx'.status = "success" =>
          lastTx'.ret = getTotalEvents(events') - getTotalEvents(events)]_vars

C33_ConfirmAfterReceipt ==
    \A s \in Sessions :
        pc[s] = "confirming" =>
            LET item == pendingTransactions[s][cursor[s]]
            IN  /\ receipt[s] # NoReceipt
                /\ receipt[s].hash > 0
                /\ item.transaction.data = EventArgs(item.event)
                /\ verifyHash(hashExists, EventArgs(item.event).dataHash)

\* The flight page is about to confirm its second transaction.
C33_Witness ==
    /\ pc["flight"] = "confirming"
    /\ cursor["flight"] = 2
    /\ receipt["flight"].hash > 0

\* C36: when the user rejects a transaction in the signer, the approval loop
\* stops: no later transaction of that batch is sent to the signer.
C36_RejectionStopsBatch ==
    [][\A s \in Sessions :
          pc[s] = "sending" =>
              LET item == pendingTransactions[s][cursor[s]]
                  rejected == Message("error", item.event,
                                      "User rejected transaction in MetaMask")
              IN  rejected \in shown'[s] /\ rejected \notin shown[s] =>
                      pc'[s] # "sending"]_vars

\* C37: once the user has cancelled the approval modal, no prepared
\* transaction is handed to the signer any more, also when a batch was
\* being processed at the time.
C37_NoSendAfterCancel ==
    [][(Cancelled \in shown["home"]) => (handed' = handed)]_vars

\* C38: while the home page's modal is visible, a navigation to the flight
\* page is asked for by the approve or the cancel handler only; the
\* console-complete callback asks for none while the modal is visible or
\* loading is true; and the modal is visible with pending transactions only.
C38_ModalHoldsNavigation ==
    /\ [](metamaskModalVisible => pendingTransactions["home"] # <<>>)
    /\ [][/\ metamaskModalVisible /\ navigation' # navigation =>
                navigation' \in {"handleApproveTransactions", "onCancel"}
          /\ onComplete.scheduled /\ ~onComplete'.scheduled
                /\ (metamaskModalVisible \/ loading) =>
                navigation' = navigation]_vars

\* While a batch is being processed under the visible modal, the console's
\* timer holds a callback of a render that saw the modal.
C38_Witness ==
    /\ metamaskModalVisible
    /\ Len(pendingTransactions["home"]) = 2
    /\ handed # <<>>
    /\ onComplete.scheduled
    /\ onComplete.metamaskModalVisible
    /\ navigation = "none"

\* The callback does navigate once the page is neither loading nor showing
\* the modal.
C38_ConsoleNavigates == navigation = "handleConsoleComplete"

\* C39: when handleSearch has returned, loading is false and the modal is
\* shown, a navigation to the flight page was asked for, or an error was
\* reported.
C39_SearchEndsNotLoading ==
    consoleVisible /\ pc["home"] # "preparing" =>
        /\ ~loading
        /\ \/ metamaskModalVisible
           \/ navigation # "none"
           \/ \E m \in shown["home"] : m.level = "error"

\* C40: the flight page offers 'Record Events on Blockchain' whenever the
\* flight it shows has an event that is not verified.
C40_UnverifiedIsOffered ==
    pc["flight"] = "loaded" /\ (\E e \in EventIds : ~flight["flight"][e].is_verified) =>
        Offered(flight["flight"])

====
